---- MODULE Spec2Model ----
(***************************************************************************)
(* Model of mbtiles/mbtiles.go: the read-only access layer over an         *)
(* MBTiles container (NewDB, ReadTile, ReadGrid, ReadMetadata, Close and   *)
(* detectTileFormat).                                                      *)
(*                                                                         *)
(* Byte strings and texts are sequences of tokens (TLA+ strings).  A byte  *)
(* token is written in hex ("1f", "8b"); a JSON text is the sequence of    *)
(* its lexical tokens.  The external SQLite store is the record            *)
(* `container`; it is never written by this layer.                         *)
(***************************************************************************)
EXTENDS Integers, Sequences, FiniteSets, TLC

(***************************************************************************)
(* Bounds of the model.                                                    *)
(***************************************************************************)
MaxZoom == 1
MaxDetailRows == 2
MaxMetaRows == 2
MaxLeaks == 2
NumCallers == 2

(***************************************************************************)
(* type TileFormat uint8 (iota constants).                                 *)
(***************************************************************************)
UNKNOWN == 0
GZIP == 1
ZLIB == 2
PNG == 3
JPG == 4
PBF == 5
WEBP == 6

(***************************************************************************)
(* bytes.HasPrefix                                                         *)
(***************************************************************************)
HasPrefix(s, p) == Len(s) >= Len(p) /\ SubSeq(s, 1, Len(p)) = p

Tail2(s) == SubSeq(s, 3, Len(s))

(***************************************************************************)
(* detectTileFormat: the magic-byte table and the scan over it.  The table *)
(* is a Go map, so the scan order is unspecified: the result is the set of *)
(* outcomes some order can produce.                                        *)
(***************************************************************************)
patterns ==
  [f \in {GZIP, ZLIB, PNG, JPG, WEBP} |->
     CASE f = GZIP -> <<"1f", "8b">>
       [] f = ZLIB -> <<"78", "9c">>
       [] f = PNG  -> <<"89", "50", "4e", "47", "0d", "0a", "1a", "0a">>
       [] f = JPG  -> <<"ff", "d8", "ff">>
       [] f = WEBP -> <<"52", "49", "46", "46", "c0", "00", "00", "00",
                        "57", "45", "42", "50", "56", "50">>]

detectTileFormat(data) ==
  LET hits == {f \in DOMAIN patterns : HasPrefix(data, patterns[f])}
  IN  IF hits = {}
        THEN {[format |-> UNKNOWN, err |-> "ErrDetect"]}
        ELSE {[format |-> f, err |-> "nil"] : f \in hits}

(***************************************************************************)
(* encoding/json, on token sequences.  Decoded values are tagged records:  *)
(*   [t |-> "null"]            nil                                         *)
(*   [t |-> "num", n |-> i]    float64                                     *)
(*   [t |-> "str", s |-> tok]  string                                      *)
(*   [t |-> "arr", a |-> seq]  []interface{}                               *)
(*   [t |-> "obj", m |-> fn]   map[string]interface{}                      *)
(***************************************************************************)
JNull == [t |-> "null"]
JNum(i) == [t |-> "num", n |-> i]
JStr(s) == [t |-> "str", s |-> s]
JArr(a) == [t |-> "arr", a |-> a]
JObj(m) == [t |-> "obj", m |-> m]
EmptyMap == [k \in {} |-> JNull]

Digits == {"0", "1", "2", "3", "4", "5", "6", "7", "8", "9"}
Punct == {"{", "}", "[", "]", ":", ","}
Space == "\n"
Garbage == "??"

DigitVal(d) ==
  CASE d = "0" -> 0 [] d = "1" -> 1 [] d = "2" -> 2 [] d = "3" -> 3
    [] d = "4" -> 4 [] d = "5" -> 5 [] d = "6" -> 6 [] d = "7" -> 7
    [] d = "8" -> 8 [] d = "9" -> 9

DigitTok(i) ==
  CASE i = 0 -> "0" [] i = 1 -> "1" [] i = 2 -> "2" [] i = 3 -> "3"
    [] i = 4 -> "4" [] i = 5 -> "5" [] i = 6 -> "6" [] i = 7 -> "7"
    [] i = 8 -> "8" [] i = 9 -> "9"

IsStrTok(tok) == tok \notin (Digits \cup Punct \cup {"null", "-", ".", Space, Garbage})

\* The names that occur as object keys, in the byte order sort.Strings gives.
KeyNames == <<"a", "b", "bounds", "center", "data", "grid", "keys",
              "maxzoom", "minzoom", "name">>

SortedKeys(S) == SelectSeq(KeyNames, LAMBDA k : k \in S)

MapPut(m, k, v) == [j \in DOMAIN m \cup {k} |-> IF j = k THEN v ELSE m[j]]

ParseFail == [ok |-> FALSE, v |-> JNull, next |-> 0]

RECURSIVE ScanDigits(_, _, _)
ScanDigits(t, i, acc) ==
  IF i <= Len(t) /\ t[i] \in Digits
    THEN ScanDigits(t, i + 1, acc * 10 + DigitVal(t[i]))
    ELSE [v |-> acc, next |-> i]

RECURSIVE ParseValue(_, _)
RECURSIVE ParseMembers(_, _, _)
RECURSIVE ParseElems(_, _, _)

\* one JSON value starting at token i
ParseValue(t, i) ==
  IF i > Len(t) THEN ParseFail
  ELSE IF t[i] = "null" THEN [ok |-> TRUE, v |-> JNull, next |-> i + 1]
  ELSE IF t[i] \in Digits
    THEN LET r == ScanDigits(t, i, 0)
         IN  [ok |-> TRUE, v |-> JNum(r.v), next |-> r.next]
  ELSE IF t[i] = "-"
    THEN IF i + 1 <= Len(t) /\ t[i + 1] \in Digits
           THEN LET r == ScanDigits(t, i + 1, 0)
                IN  [ok |-> TRUE, v |-> JNum(0 - r.v), next |-> r.next]
           ELSE ParseFail
  ELSE IF t[i] = "{"
    THEN IF i + 1 <= Len(t) /\ t[i + 1] = "}"
           THEN [ok |-> TRUE, v |-> JObj(EmptyMap), next |-> i + 2]
           ELSE ParseMembers(t, i + 1, EmptyMap)
  ELSE IF t[i] = "["
    THEN IF i + 1 <= Len(t) /\ t[i + 1] = "]"
           THEN [ok |-> TRUE, v |-> JArr(<<>>), next |-> i + 2]
           ELSE ParseElems(t, i + 1, <<>>)
  ELSE IF IsStrTok(t[i]) THEN [ok |-> TRUE, v |-> JStr(t[i]), next |-> i + 1]
  ELSE ParseFail

\* key ":" value, then "," or "}"; a repeated key keeps its last value
ParseMembers(t, i, m) ==
  IF i + 1 > Len(t) \/ ~IsStrTok(t[i]) \/ t[i + 1] # ":" THEN ParseFail
  ELSE LET r == ParseValue(t, i + 2)
       IN  IF ~r.ok \/ r.next > Len(t) THEN ParseFail
           ELSE IF t[r.next] = "}"
             THEN [ok |-> TRUE, v |-> JObj(MapPut(m, t[i], r.v)), next |-> r.next + 1]
           ELSE IF t[r.next] = ","
             THEN ParseMembers(t, r.next + 1, MapPut(m, t[i], r.v))
           ELSE ParseFail

ParseElems(t, i, a) ==
  LET r == ParseValue(t, i)
  IN  IF ~r.ok \/ r.next > Len(t) THEN ParseFail
      ELSE IF t[r.next] = "]"
        THEN [ok |-> TRUE, v |-> JArr(Append(a, r.v)), next |-> r.next + 1]
      ELSE IF t[r.next] = ","
        THEN ParseElems(t, r.next + 1, Append(a, r.v))
      ELSE ParseFail

RECURSIVE OnlySpace(_, _)
OnlySpace(t, i) == i > Len(t) \/ (t[i] = Space /\ OnlySpace(t, i + 1))

\* json.Unmarshal's validity check: the whole text is exactly one JSON value
Valid(t) ==
  LET r == ParseValue(t, 1) IN r.ok /\ OnlySpace(t, r.next)

RECURSIVE EncodeNat(_)
EncodeNat(n) ==
  IF n < 10 THEN <<DigitTok(n)>> ELSE EncodeNat(n \div 10) \o <<DigitTok(n % 10)>>

RECURSIVE EncodeValue(_)
RECURSIVE EncodeMembers(_, _)
RECURSIVE EncodeElems(_)

\* json.Marshal: object keys are written in sorted order
EncodeValue(v) ==
  CASE v.t = "null" -> <<"null">>
    [] v.t = "num"  -> IF v.n < 0 THEN <<"-">> \o EncodeNat(0 - v.n) ELSE EncodeNat(v.n)
    [] v.t = "str"  -> <<v.s>>
    [] v.t = "arr"  -> <<"[">> \o EncodeElems(v.a) \o <<"]">>
    [] v.t = "obj"  -> <<"{">> \o EncodeMembers(v.m, SortedKeys(DOMAIN v.m)) \o <<"}">>

EncodeMembers(m, ks) ==
  IF ks = <<>> THEN <<>>
  ELSE <<Head(ks), ":">> \o EncodeValue(m[Head(ks)])
       \o (IF Len(ks) > 1 THEN <<",">> \o EncodeMembers(m, Tail(ks)) ELSE <<>>)

EncodeElems(a) ==
  IF a = <<>> THEN <<>>
  ELSE EncodeValue(Head(a))
       \o (IF Len(a) > 1 THEN <<",">> \o EncodeElems(Tail(a)) ELSE <<>>)

\* (*json.Encoder).Encode: the value followed by a newline
Encode(v) == EncodeValue(v) \o <<Space>>

(***************************************************************************)
(* compress/zlib and compress/gzip.  A compressed blob is the envelope's   *)
(* header followed by the stream; the stream is written as the text it     *)
(* inflates to, with the token "??" standing for a corrupt block: reading  *)
(* up to it fails.                                                         *)
(***************************************************************************)
ZlibFlags == {"01", "5e", "9c", "da"}

zlibNewReader(data) ==
  IF Len(data) >= 2 /\ data[1] = "78" /\ data[2] \in ZlibFlags
    THEN [err |-> "nil", stream |-> Tail2(data)]
    ELSE [err |-> "ErrHeader", stream |-> <<>>]

gzipNewReader(data) ==
  IF Len(data) >= 2 /\ data[1] = "1f" /\ data[2] = "8b"
    THEN [err |-> "nil", stream |-> Tail2(data)]
    ELSE [err |-> "ErrHeader", stream |-> <<>>]

zlibNewWriter(text) == <<"78", "9c">> \o text

gzipNewWriter(text) == <<"1f", "8b">> \o text

(***************************************************************************)
(* A Go map variable: nil or a mapping.                                    *)
(***************************************************************************)
NilMap == [nil |-> TRUE, m |-> EmptyMap]
MakeMap == [nil |-> FALSE, m |-> EmptyMap]

MapMerge(m, n) == [k \in DOMAIN m \cup DOMAIN n |-> IF k \in DOMAIN n THEN n[k] ELSE m[k]]

\* json.Unmarshal(value, &target) with target a map[string]interface{}
Unmarshal(value, target) ==
  IF ~Valid(value) THEN [err |-> "ErrSyntax", target |-> target]
  ELSE LET v == ParseValue(value, 1).v
       IN  IF v.t = "obj"
             THEN [err |-> "nil", target |-> [nil |-> FALSE, m |-> MapMerge(target.m, v.m)]]
           ELSE IF v.t = "null" THEN [err |-> "nil", target |-> NilMap]
           ELSE [err |-> "ErrType", target |-> target]

\* json.NewDecoder(zreader).Decode(&utfjson), utfjson a nil map: the first
\* value of the stream; what follows it is not read.
Decode(stream) ==
  LET r == ParseValue(stream, 1)
  IN  IF ~r.ok THEN [err |-> "ErrSyntax", target |-> NilMap]
      ELSE IF r.v.t = "obj" THEN [err |-> "nil", target |-> [nil |-> FALSE, m |-> r.v.m]]
      ELSE IF r.v.t = "null" THEN [err |-> "nil", target |-> NilMap]
      ELSE [err |-> "ErrType", target |-> NilMap]

\* how a map variable is marshalled: a nil map is written as null
MapValue(mv) == IF mv.nil THEN JNull ELSE JObj(mv.m)

(***************************************************************************)
(* The container (the SQLite file), as the queries of this file see it:    *)
(*   stat       os.Stat succeeds                                           *)
(*   mtime      modification time, in milliseconds                         *)
(*   fault      the one query that fails with a store error, or "none"     *)
(*   tiles      (z, x, y) -> tile_data                                     *)
(*   gridsView, grids      the view exists; (z, x, y) -> grid or NULL      *)
(*   gridDataView, gridData   the view exists; (z, x, y) -> detail rows    *)
(*   metadata   the rows (name, value) of the metadata table               *)
(***************************************************************************)
Faults == {"sample_tile", "probe_grids", "sample_grid", "probe_grid_data",
           "tile", "grid", "grid_data", "metadata", "zoom"}

\* the coordinates read: column 0 is where the containers below hold rows
Coords == {<<z, x, z>> : z \in 0..MaxZoom, x \in 0..1}

\* time.Time.Round(time.Second), on milliseconds: halfway values round up
Round(ms) == ((ms + 500) \div 1000) * 1000

(***************************************************************************)
(* The handle: struct DB.  state is "none" before NewDB returned a handle, *)
(* "open" while its connection is open, "closed" after Close.              *)
(***************************************************************************)
NoHandle ==
  [state |-> "none", tileformat |-> UNKNOWN, timestamp |-> 0, hasUTFGrid |-> FALSE,
   utfgridCompression |-> UNKNOWN, hasUTFGridData |-> FALSE]

\* a query on the handle's connection fails
StoreFails(tileset, S, site) == S.fault = site

(***************************************************************************)
(* NewDB.  The result is the set of outcomes: "limit 1" returns an         *)
(* arbitrary row.  No error path closes db.                                *)
(***************************************************************************)
NewDBFail(e) == [err |-> e, out |-> NoHandle]

\* the sampled format taken as it is (what C6 is tested against)
MaskGzipNever(f) == f

\* "GZIP masks PBF, which is only expected type for tiles in GZIP format"

MaskGzip(f) == IF f = GZIP THEN PBF ELSE f

\* the UTFGrid part: from "first check to see if requisite tables exist" on
\* grid support decided by the view alone (what C5 is tested against)
NewDBGridsViewOnly(S, out) ==
  IF S.fault = "probe_grids" THEN {NewDBFail("ErrStore")}
  ELSE IF ~S.gridsView THEN {[err |-> "nil", out |-> out]}
  ELSE {[err |-> "nil", out |-> [out EXCEPT !.hasUTFGrid = TRUE, !.utfgridCompression = ZLIB]]}

NewDBGrids(S, out) ==
  IF S.fault = "probe_grids" THEN {NewDBFail("ErrStore")}
  ELSE IF ~S.gridsView THEN {[err |-> "nil", out |-> out]}
  ELSE IF S.fault = "sample_grid" THEN {NewDBFail("ErrSampleGrid")}
  ELSE LET nonnull == {c \in DOMAIN S.grids : ~S.grids[c].null}
       IN  IF nonnull = {} THEN {[err |-> "nil", out |-> out]}
           ELSE UNION {
             {IF d.err # "nil" THEN NewDBFail("ErrGridDetect")
              ELSE IF S.fault = "probe_grid_data" THEN NewDBFail("ErrStore")
              ELSE [err |-> "nil",
                    out |-> [out EXCEPT !.hasUTFGrid = TRUE,
                                        !.utfgridCompression = d.format,
                                        !.hasUTFGridData = S.gridDataView]]
                : d \in detectTileFormat(S.grids[c].grid)}
             : c \in nonnull}

NewDB(S) ==
  IF ~S.stat THEN {NewDBFail("ErrStat")}
  ELSE IF S.fault = "sample_tile" THEN {NewDBFail("ErrStore")}
  ELSE IF DOMAIN S.tiles = {} THEN {NewDBFail("ErrNoRows")}
  ELSE UNION {
    UNION {
      IF d.err # "nil" THEN {NewDBFail("ErrDetect")}
      ELSE NewDBGrids(S, [NoHandle EXCEPT !.state = "open",
                                          !.tileformat = MaskGzip(d.format),
                                          !.timestamp = Round(S.mtime)])
      : d \in detectTileFormat(S.tiles[c])}
    : c \in DOMAIN S.tiles}

(***************************************************************************)
(* ReadTile                                                                *)
(***************************************************************************)
\* ReadTile without "*data = nil" (what C4 is tested against)
ReadTileKeepsBuffer(tileset, S, c, data) ==
  IF StoreFails(tileset, S, "tile") THEN [err |-> "ErrStore", data |-> data]
  ELSE IF c \notin DOMAIN S.tiles THEN [err |-> "nil", data |-> data]
  ELSE [err |-> "nil", data |-> S.tiles[c]]

ReadTile(tileset, S, c, data) ==
  IF StoreFails(tileset, S, "tile") THEN [err |-> "ErrStore", data |-> data]
  ELSE IF c \notin DOMAIN S.tiles THEN [err |-> "nil", data |-> <<>>]
  ELSE [err |-> "nil", data |-> S.tiles[c]]

(***************************************************************************)
(* ReadGrid                                                                *)
(***************************************************************************)
GridRows(S, c) == IF c \in DOMAIN S.gridData THEN S.gridData[c] ELSE <<>>

\* one pass of the rows loop: valuejson is a fresh map, the error of
\* json.Unmarshal is dropped, keydata[key] = valuejson
KeyValue(value) == MapValue(Unmarshal(value, MakeMap).target)

RECURSIVE KeyData(_, _)
KeyData(rows, keydata) ==
  IF rows = <<>> THEN keydata
  ELSE KeyData(Tail(rows), MapPut(keydata, Head(rows).key_name, KeyValue(Head(rows).key_json)))

\* from "reader := bytes.NewReader(*data)" to the end: blob is *data
Splice(tileset, blob, keydata) ==
  LET zlibbed == tileset.utfgridCompression = ZLIB
      zreader == IF zlibbed THEN zlibNewReader(blob) ELSE gzipNewReader(blob)
  IN  IF zreader.err # "nil" THEN [err |-> "ErrHeader", data |-> blob]
      ELSE LET utfjson == Decode(zreader.stream).target
           IN  IF utfjson.nil
                 THEN [err |-> "panic", data |-> blob]
                 ELSE LET text == Encode(JObj(MapPut(utfjson.m, "data", JObj(keydata))))
                      IN  [err |-> "nil",
                           data |-> IF zlibbed THEN zlibNewWriter(text) ELSE gzipNewWriter(text)]

\* ReadGrid without "if len(keydata) == 0" (what C3 is tested against)
ReadGridAlwaysSplices(tileset, S, c, data) ==
  IF ~tileset.hasUTFGrid THEN [err |-> "ErrNoUTFGrid", data |-> data]
  ELSE IF StoreFails(tileset, S, "grid") THEN [err |-> "ErrStore", data |-> data]
  ELSE IF c \notin DOMAIN S.grids THEN [err |-> "nil", data |-> <<>>]
  ELSE IF ~tileset.hasUTFGridData THEN [err |-> "nil", data |-> S.grids[c].grid]
  ELSE IF StoreFails(tileset, S, "grid_data") THEN [err |-> "ErrStore", data |-> S.grids[c].grid]
  ELSE Splice(tileset, S.grids[c].grid, KeyData(GridRows(S, c), EmptyMap))

ReadGrid(tileset, S, c, data) ==
  IF ~tileset.hasUTFGrid THEN [err |-> "ErrNoUTFGrid", data |-> data]
  ELSE IF StoreFails(tileset, S, "grid") THEN [err |-> "ErrStore", data |-> data]
  ELSE IF c \notin DOMAIN S.grids THEN [err |-> "nil", data |-> <<>>]
  ELSE LET blob == S.grids[c].grid
       IN  IF ~tileset.hasUTFGridData THEN [err |-> "nil", data |-> blob]
           ELSE IF StoreFails(tileset, S, "grid_data") THEN [err |-> "ErrStore", data |-> blob]
           ELSE LET keydata == KeyData(GridRows(S, c), EmptyMap)
                IN  IF DOMAIN keydata = {} THEN [err |-> "nil", data |-> blob]
                    ELSE Splice(tileset, blob, keydata)

(***************************************************************************)
(* ReadMetadata.  Typed values of the mapping, besides the decoded JSON    *)
(* values:  [t |-> "int", n |-> i]      int (strconv.Atoi)                 *)
(*          [t |-> "floats", a |-> seq] []float64 (stringToFloats)         *)
(*          [t |-> "string", s |-> text] the row's value                   *)
(***************************************************************************)
GoInt(i) == [t |-> "int", n |-> i]
GoFloats(a) == [t |-> "floats", a |-> a]
GoString(s) == [t |-> "string", s |-> s]

AllDigits(s) == s # <<>> /\ \A i \in 1..Len(s) : s[i] \in Digits

\* strconv.Atoi: an optional sign, then decimal digits
Atoi(value) ==
  LET signed == value # <<>> /\ value[1] \in {"+", "-"}
      digits == IF signed THEN Tail(value) ELSE value
  IN  IF ~AllDigits(digits) THEN [err |-> "ErrSyntax", n |-> 0]
      ELSE LET n == ScanDigits(digits, 1, 0).v
           IN  [err |-> "nil", n |-> IF signed /\ value[1] = "-" THEN 0 - n ELSE n]

\* strings.Split(value, ",")
RECURSIVE SplitComma(_, _, _)
SplitComma(s, cur, acc) ==
  IF s = <<>> THEN Append(acc, cur)
  ELSE IF Head(s) = "," THEN SplitComma(Tail(s), <<>>, Append(acc, cur))
  ELSE SplitComma(Tail(s), Append(cur, Head(s)), acc)

\* stringToFloats: the value split at commas, each part a number
stringToFloats(value) ==
  LET parts == SplitComma(value, <<>>, <<>>)
  IN  IF \E i \in 1..Len(parts) : Atoi(parts[i]).err # "nil"
        THEN [err |-> "ErrSyntax", a |-> <<>>]
        ELSE [err |-> "nil", a |-> [i \in 1..Len(parts) |-> Atoi(parts[i]).n]]

MetaRows(S) == SelectSeq(S.metadata, LAMBDA r : r.value # <<>>)

\* the body of "for rows.Next()": st is [err, metadata]; an assignment to
\* an entry of a nil map panics
JsonItem(st, key, value) ==
  LET u == Unmarshal(value, st.metadata)
  IN  IF u.err # "nil" THEN [err |-> "ErrJSON", metadata |-> NilMap]
      ELSE [err |-> "nil", metadata |-> u.target]

MetaItem(st, key, value) ==
  IF key = "json" THEN JsonItem(st, key, value)
  ELSE IF st.metadata.nil THEN [err |-> "panic", metadata |-> NilMap]
  ELSE IF key \in {"maxzoom", "minzoom"}
    THEN LET r == Atoi(value)
         IN  IF r.err # "nil" THEN [err |-> "ErrConvert", metadata |-> NilMap]
             ELSE [err |-> "nil",
                   metadata |-> [nil |-> FALSE, m |-> MapPut(st.metadata.m, key, GoInt(r.n))]]
  ELSE IF key \in {"bounds", "center"}
    THEN LET r == stringToFloats(value)
         IN  IF r.err # "nil" THEN [err |-> "ErrConvert", metadata |-> NilMap]
             ELSE [err |-> "nil",
                   metadata |-> [nil |-> FALSE, m |-> MapPut(st.metadata.m, key, GoFloats(r.a))]]
  ELSE [err |-> "nil",
        metadata |-> [nil |-> FALSE, m |-> MapPut(st.metadata.m, key, GoString(value))]]

RECURSIVE MetaLoop(_, _)
MetaLoop(rows, st) ==
  IF rows = <<>> \/ st.err # "nil" THEN st
  ELSE MetaLoop(Tail(rows), MetaItem(st, Head(rows).name, Head(rows).value))

Min(A) == CHOOSE a \in A : \A b \in A : a <= b
Max(A) == CHOOSE a \in A : \A b \in A : a >= b

\* "select min(zoom_level), max(zoom_level) from tiles": over no rows both
\* are NULL, and Scan into an int fails
ZoomQuery(tileset, S) ==
  IF StoreFails(tileset, S, "zoom") \/ DOMAIN S.tiles = {}
    THEN [err |-> "ErrStore", minZoom |-> 0, maxZoom |-> 0]
    ELSE LET zs == {c[1] : c \in DOMAIN S.tiles}
         IN  [err |-> "nil", minZoom |-> Min(zs), maxZoom |-> Max(zs)]

\* "Supplement missing values by inferring from available data"
InferZoom(tileset, S, metadata) ==
  LET q == ZoomQuery(tileset, S)
  IN  IF "minzoom" \in DOMAIN metadata.m /\ "maxzoom" \in DOMAIN metadata.m
        THEN [err |-> "nil", metadata |-> metadata]
      ELSE IF q.err # "nil" THEN [err |-> "nil", metadata |-> metadata]
      ELSE IF metadata.nil THEN [err |-> "panic", metadata |-> NilMap]
      ELSE [err |-> "nil",
            metadata |-> [nil |-> FALSE,
                          m |-> MapPut(MapPut(metadata.m, "minzoom", GoInt(q.minZoom)),
                                       "maxzoom", GoInt(q.maxZoom))]]

ReadMetadata(tileset, S) ==
  IF StoreFails(tileset, S, "metadata") THEN [err |-> "ErrStore", metadata |-> NilMap]
  ELSE LET st == MetaLoop(MetaRows(S), [err |-> "nil", metadata |-> MakeMap])
       IN  IF st.err # "nil" THEN st ELSE InferZoom(tileset, S, st.metadata)

(***************************************************************************)
(* The containers the model is run on.                                     *)
(***************************************************************************)
Places == {<<z, 0, z>> : z \in 0..MaxZoom}
P0 == <<0, 0, 0>>
PTop == <<MaxZoom, 0, MaxZoom>>

NoRows == [c \in {} |-> <<>>]
Tables(places, values) == UNION {[D -> values] : D \in SUBSET places}

RECURSIVE SeqsUpTo(_, _)
SeqsUpTo(A, n) ==
  IF n = 0 THEN {<<>>}
  ELSE LET shorter == SeqsUpTo(A, n - 1)
       IN  shorter \cup {Append(q, a) : q \in shorter, a \in A}

PngTile == patterns[PNG] \o <<"t0">>
GzTile == <<"1f", "8b", "08", "t1">>
ZlibTile == <<"78", "9c", "t2">>
JpgTile == patterns[JPG] \o <<"t3">>
WebpTile == patterns[WEBP] \o <<"t4">>
UnknownTile == <<"00", "t5">>
ShortTile == <<"1f">>
TileBlobs == {PngTile, GzTile, ZlibTile, JpgTile, WebpTile, UnknownTile, ShortTile, <<>>}

GridText == <<"{", "grid", ":", "[", "x", "]", "}">>
GridRow(b) == [null |-> FALSE, grid |-> b]
NullGrid == [null |-> TRUE, grid |-> <<>>]
ZlibGood == <<"78", "9c">> \o GridText
GzGood == <<"1f", "8b">> \o GridText
ZlibData == <<"78", "9c", "{", "keys", ":", "[", "]", ",", "grid", ":", "[", "x", "]",
              ",", "data", ":", "5", "}">>
ZlibTrailing == ZlibGood \o <<Garbage>>
ZlibArr == <<"78", "9c", "[", "1", "]">>
ZlibNull == <<"78", "9c", "null">>
ZlibCorrupt == <<"78", "9c", "{", "grid", ":", Garbage>>
ZlibEmpty == <<"78", "9c">>
ZlibFast == <<"78", "01">> \o GridText
BadEnvelope == <<"00", "x">>
PngGrid == patterns[PNG] \o <<"g">>
GoodGrids == {ZlibGood, GzGood, ZlibData}
GridBlobs == GoodGrids \cup {ZlibTrailing, ZlibArr, ZlibNull, ZlibCorrupt, ZlibEmpty,
                             ZlibFast, BadEnvelope, PngGrid}

KeyRow(k, j) == [key_name |-> k, key_json |-> j]
ObjText == <<"{", "name", ":", "x", "}">>
BadText == <<"{", "name">>
DetailRows == {KeyRow("a", <<"1">>), KeyRow("a", ObjText), KeyRow("a", <<"null">>),
               KeyRow("a", BadText), KeyRow("b", <<"2">>), KeyRow("b", ObjText)}
FewDetails == {<<>>, <<KeyRow("a", ObjText)>>, <<KeyRow("a", <<"1">>)>>, <<KeyRow("a", BadText)>>}

MetaRow(k, v) == [name |-> k, value |-> v]
MetaItems ==
  {MetaRow("minzoom", <<"1">>), MetaRow("minzoom", <<"x">>), MetaRow("maxzoom", <<"1", "2">>),
   MetaRow("bounds", <<"-", "1", ",", "2">>), MetaRow("center", <<"1", ",", "x">>),
   MetaRow("name", <<"x">>), MetaRow("name", <<>>),
   MetaRow("json", <<"{", "minzoom", ":", "x", ",", "a", ":", "1", "}">>),
   MetaRow("json", <<"{", "maxzoom", ":", "3", ",", "bounds", ":", "5", "}">>),
   MetaRow("json", <<"null">>), MetaRow("json", BadText)}

Base ==
  [stat |-> TRUE, mtime |-> 1500, fault |-> "none", tiles |-> (P0 :> PngTile),
   gridsView |-> FALSE, grids |-> NoRows, gridDataView |-> FALSE, gridData |-> NoRows,
   metadata |-> <<>>]

WithGrids(S, G, dv, D) ==
  [S EXCEPT !.gridsView = TRUE, !.grids = G, !.gridDataView = dv, !.gridData = D]

\* what the two probes of NewDB meet
OpenContainers ==
  {[Base EXCEPT !.stat = FALSE], [Base EXCEPT !.mtime = 1499], [Base EXCEPT !.gridDataView = TRUE]}
  \cup {[S EXCEPT !.tiles = T] :
          S \in {Base, WithGrids(Base, P0 :> GridRow(GzGood), TRUE, NoRows)},
          T \in {P0 :> b : b \in TileBlobs} \cup Tables(Places, {PngTile, GzTile, UnknownTile})}
  \cup {WithGrids(Base, G, dv, NoRows) :
          G \in Tables(Places, {NullGrid, GridRow(GzGood), GridRow(ZlibGood),
                                GridRow(PngGrid), GridRow(BadEnvelope)}),
          dv \in BOOLEAN}
  \cup {[S EXCEPT !.fault = f] :
          S \in {Base} \cup {WithGrids(Base, G, dv, NoRows) :
                               G \in {NoRows, P0 :> NullGrid, P0 :> GridRow(ZlibGood)},
                               dv \in BOOLEAN},
          f \in Faults}

\* what ReadGrid meets: the blob at P0, another grid that NewDB may sample
\* instead, and the detail rows
GridContainers ==
  {WithGrids(Base, (P0 :> GridRow(b)) @@ G, dv, P0 :> d) :
     b \in GridBlobs,
     G \in {NoRows, PTop :> GridRow(ZlibGood), PTop :> GridRow(GzGood)},
     dv \in BOOLEAN,
     d \in FewDetails}
  \cup {WithGrids(Base, P0 :> GridRow(b), TRUE, D) :
          b \in GoodGrids,
          D \in {P0 :> d : d \in SeqsUpTo(DetailRows, MaxDetailRows)}
                \cup {PTop :> <<KeyRow("a", ObjText)>>}}

\* what ReadMetadata meets: the rows, and the zoom levels of the tiles
MetaContainers ==
  {[S EXCEPT !.metadata = m] :
     S \in {[Base EXCEPT !.tiles = [c \in Places |-> PngTile]], [Base EXCEPT !.fault = "zoom"]},
     m \in SeqsUpTo(MetaItems, MaxMetaRows)}
  \cup {[Base EXCEPT !.tiles = PTop :> PngTile, !.metadata = m] : m \in SeqsUpTo(MetaItems, 1)}

Containers == OpenContainers \cup GridContainers \cup MetaContainers

\* what a caller's buffer holds before a read
Bufs == {<<>>, <<"ff", "old">>}

(***************************************************************************)
(* State.                                                                  *)
(*   container  the store (never written)                                  *)
(*   handle     the *DB that NewDB last returned                           *)
(*   leaked     the connections opened by NewDB calls that returned no     *)
(*              handle, and so can never be closed                         *)
(*   call       the last call that returned, with what it returned (out is *)
(*              the handle of a NewDB)                                     *)
(*   callers    the calls in progress of the concurrent callers            *)
(***************************************************************************)
VARIABLES container, handle, leaked, call, callers

vars == <<container, handle, leaked, call, callers>>

NoCall ==
  [op |-> "none", coord |-> P0, before |-> <<>>, err |-> "nil", data |-> <<>>,
   metadata |-> NilMap, out |-> NoHandle]

\* a caller between calls; in a call, pc is the query it is about to make,
\* rows the rows its cursor has not returned yet, cursors its open cursors
Idle ==
  [pc |-> "idle", op |-> "none", coord |-> P0, before |-> <<>>, err |-> "nil", data |-> <<>>,
   metadata |-> NilMap, cursors |-> 0, rows |-> <<>>, keydata |-> EmptyMap]

Callers == 1..NumCallers

Init ==
  /\ container \in Containers
  /\ handle = NoHandle
  /\ leaked = 0
  /\ call = NoCall
  /\ callers = [i \in Callers |-> Idle]

\* NewDB(filename): a returned handle owns the connection; on an error the
\* connection stays open and nothing refers to it
DoNewDB ==
  /\ handle.state # "open"
  /\ leaked < MaxLeaks
  /\ \E r \in NewDB(container) :
       /\ handle' = IF r.err = "nil" THEN r.out ELSE handle
       /\ leaked' = IF r.err = "nil" THEN leaked ELSE leaked + 1
       /\ call' = [NoCall EXCEPT !.op = "NewDB", !.err = r.err, !.out = r.out]
  /\ UNCHANGED <<container, callers>>

\* tileset.Close()
DoClose ==
  /\ handle.state = "open"
  /\ handle' = [handle EXCEPT !.state = "closed"]
  /\ call' = [NoCall EXCEPT !.op = "Close"]
  /\ UNCHANGED <<container, leaked, callers>>

\* tileset.ReadTile(z, x, y, &data)
DoReadTile ==
  /\ handle.state = "open"
  /\ \E c \in Coords, data \in Bufs :
       LET r == ReadTile(handle, container, c, data)
       IN  call' = [NoCall EXCEPT !.op = "ReadTile", !.coord = c, !.before = data,
                                  !.err = r.err, !.data = r.data]
  /\ UNCHANGED <<container, handle, leaked, callers>>

\* tileset.ReadGrid(z, x, y, &data); the deferred rows.Close() runs on
\* every return after the rows were opened, a panic included
DoReadGrid ==
  /\ handle.state = "open"
  /\ \E c \in Coords, data \in Bufs :
       LET r == ReadGrid(handle, container, c, data)
       IN  call' = [NoCall EXCEPT !.op = "ReadGrid", !.coord = c, !.before = data,
                                  !.err = r.err, !.data = r.data]
  /\ UNCHANGED <<container, handle, leaked, callers>>

\* tileset.ReadMetadata()
DoReadMetadata ==
  /\ handle.state = "open"
  /\ LET r == ReadMetadata(handle, container)
     IN  call' = [NoCall EXCEPT !.op = "ReadMetadata", !.err = r.err, !.metadata = r.metadata]
  /\ UNCHANGED <<container, handle, leaked, callers>>

Next == DoNewDB \/ DoClose \/ DoReadTile \/ DoReadGrid \/ DoReadMetadata

Spec == Init /\ [][Next]_vars

(***************************************************************************)
(* Concurrent callers on one handle.  A call is a sequence of steps, one   *)
(* per access to the store (a query, or one rows.Next()); between two      *)
(* steps of a call the other callers may take steps.  Each caller has its  *)
(* own buffer and its own locals.                                          *)
(***************************************************************************)
ConcBuf == <<"ff", "old">>

ConcGrids == (P0 :> GridRow(ZlibGood)) @@ (PTop :> GridRow(ZlibData))
ConcDetails ==
  (P0 :> <<KeyRow("a", ObjText), KeyRow("b", <<"2">>)>>) @@ (PTop :> <<KeyRow("a", <<"1">>)>>)
ConcMeta == <<MetaRow("minzoom", <<"1">>), MetaRow("json", <<"{", "minzoom", ":", "x", ",", "a", ":", "1", "}">>)>>

ConcBase ==
  [WithGrids(Base, ConcGrids, TRUE, ConcDetails)
     EXCEPT !.tiles = [c \in Places |-> PngTile], !.metadata = ConcMeta]

ConcContainers ==
  {[ConcBase EXCEPT !.fault = f] : f \in {"none", "tile", "grid", "grid_data", "metadata", "zoom"}}
  \cup {[ConcBase EXCEPT !.gridDataView = FALSE],
        [ConcBase EXCEPT !.gridsView = FALSE],
        [ConcBase EXCEPT !.grids = (P0 :> GridRow(ZlibArr)) @@ (PTop :> GridRow(GzGood))],
        [ConcBase EXCEPT !.metadata = <<MetaRow("json", <<"null">>), MetaRow("name", <<"x">>)>>],
        [ConcBase EXCEPT !.metadata = <<MetaRow("maxzoom", <<"1", "2">>), MetaRow("center", <<"1", ",", "x">>)>>]}

InitConc ==
  /\ container \in ConcContainers
  /\ handle \in {r.out : r \in {q \in NewDB(container) : q.err = "nil"}}
  /\ leaked = 0
  /\ call = [NoCall EXCEPT !.op = "NewDB", !.out = handle]
  /\ callers = [i \in Callers |-> Idle]

Returns(cl, r) == [cl EXCEPT !.pc = "done", !.err = r.err, !.data = r.data, !.cursors = 0, !.rows = <<>>]

\* one keydata for all calls (what C9 is tested against)
KeydataShared(i) == 1

\* keydata := make(map[string]interface{}) is a local of the call

KeydataOf(i) == i

\* ReadTile: its one query
TileQuery(i) ==
  /\ callers[i].pc = "idle"
  /\ \E c \in Coords :
       LET r == ReadTile(handle, container, c, ConcBuf)
       IN  callers' = [callers EXCEPT ![i] =
             Returns([Idle EXCEPT !.op = "ReadTile", !.coord = c, !.before = ConcBuf], r)]
  /\ UNCHANGED <<container, handle, leaked, call>>

\* ReadGrid: the capability check and "select grid from grids where ..."
GridScan(i) ==
  /\ callers[i].pc = "idle"
  /\ \E c \in Coords :
       LET cl == [Idle EXCEPT !.op = "ReadGrid", !.coord = c, !.before = ConcBuf, !.data = ConcBuf]
       IN  callers' = [callers EXCEPT ![i] =
             IF ~handle.hasUTFGrid THEN Returns(cl, [err |-> "ErrNoUTFGrid", data |-> cl.data])
             ELSE IF StoreFails(handle, container, "grid")
               THEN Returns(cl, [err |-> "ErrStore", data |-> cl.data])
             ELSE IF c \notin DOMAIN container.grids
               THEN Returns(cl, [err |-> "nil", data |-> <<>>])
             ELSE IF ~handle.hasUTFGridData
               THEN Returns(cl, [err |-> "nil", data |-> container.grids[c].grid])
             ELSE [cl EXCEPT !.pc = "grid_query", !.data = container.grids[c].grid]]
  /\ UNCHANGED <<container, handle, leaked, call>>

\* ReadGrid: keydata is made, "select key_name, key_json FROM grid_data ..."
GridQuery(i) ==
  /\ callers[i].pc = "grid_query"
  /\ LET cl == callers[i]
         made == [callers EXCEPT ![KeydataOf(i)].keydata = EmptyMap]
     IN  callers' = [made EXCEPT ![i] =
           IF StoreFails(handle, container, "grid_data")
             THEN Returns(made[i], [err |-> "ErrStore", data |-> cl.data])
             ELSE [made[i] EXCEPT !.pc = "grid_rows", !.cursors = 1,
                                  !.rows = GridRows(container, cl.coord)]]
  /\ UNCHANGED <<container, handle, leaked, call>>

\* ReadGrid: one rows.Next(); after the last row the rest of the function
\* runs without touching the store, and the deferred rows.Close()
GridNext(i) ==
  /\ callers[i].pc = "grid_rows"
  /\ LET cl == callers[i]
         k == KeydataOf(i)
         keydata == callers[k].keydata
     IN  IF cl.rows # <<>>
           THEN callers' =
                  [[callers EXCEPT ![k].keydata =
                      MapPut(keydata, Head(cl.rows).key_name, KeyValue(Head(cl.rows).key_json))]
                     EXCEPT ![i].rows = Tail(cl.rows)]
           ELSE callers' = [callers EXCEPT ![i] =
                  IF DOMAIN keydata = {}
                    THEN Returns(cl, [err |-> "nil", data |-> cl.data])
                    ELSE Returns(cl, Splice(handle, cl.data, keydata))]
  /\ UNCHANGED <<container, handle, leaked, call>>

\* ReadMetadata: "select * from metadata where value is not ''"
MetaQuery(i) ==
  /\ callers[i].pc = "idle"
  /\ LET cl == [Idle EXCEPT !.op = "ReadMetadata"]
     IN  callers' = [callers EXCEPT ![i] =
           IF StoreFails(handle, container, "metadata")
             THEN Returns(cl, [err |-> "ErrStore", data |-> <<>>])
             ELSE [cl EXCEPT !.pc = "meta_rows", !.cursors = 1, !.metadata = MakeMap,
                             !.rows = MetaRows(container)]]
  /\ UNCHANGED <<container, handle, leaked, call>>

\* ReadMetadata: one rows.Next(); after the last row, the presence test
MetaNext(i) ==
  /\ callers[i].pc = "meta_rows"
  /\ LET cl == callers[i]
         st == MetaItem([err |-> "nil", metadata |-> cl.metadata],
                        Head(cl.rows).name, Head(cl.rows).value)
         both == "minzoom" \in DOMAIN cl.metadata.m /\ "maxzoom" \in DOMAIN cl.metadata.m
     IN  callers' = [callers EXCEPT ![i] =
           IF cl.rows # <<>>
             THEN IF st.err # "nil"
                    THEN [Returns(cl, [err |-> st.err, data |-> <<>>]) EXCEPT !.metadata = NilMap]
                    ELSE [cl EXCEPT !.rows = Tail(cl.rows), !.metadata = st.metadata]
             ELSE IF both THEN Returns(cl, [err |-> "nil", data |-> <<>>])
             ELSE [cl EXCEPT !.pc = "meta_zoom"]]
  /\ UNCHANGED <<container, handle, leaked, call>>

\* ReadMetadata: "select min(zoom_level), max(zoom_level) from tiles"
MetaZoom(i) ==
  /\ callers[i].pc = "meta_zoom"
  /\ LET cl == callers[i]
         r == InferZoom(handle, container, cl.metadata)
     IN  callers' = [callers EXCEPT ![i] =
           [Returns(cl, [err |-> r.err, data |-> <<>>]) EXCEPT !.metadata = r.metadata]]
  /\ UNCHANGED <<container, handle, leaked, call>>

\* the caller takes the result
Return(i) ==
  /\ callers[i].pc = "done"
  /\ callers' = [callers EXCEPT ![i] = Idle]
  /\ UNCHANGED <<container, handle, leaked, call>>

NextConc ==
  \E i \in Callers :
    \/ TileQuery(i)
    \/ GridScan(i)
    \/ GridQuery(i)
    \/ GridNext(i)
    \/ MetaQuery(i)
    \/ MetaNext(i)
    \/ MetaZoom(i)
    \/ Return(i)

SpecConc == InitConc /\ [][NextConc]_vars

(***************************************************************************)
(* The claims.                                                             *)
(***************************************************************************)
GzipMagic == <<"1f", "8b">>

\* the reader of the envelope the handle detected, zlib or gzip
EnvelopeReader(tileset, blob) ==
  IF tileset.utfgridCompression = ZLIB THEN zlibNewReader(blob)
  ELSE IF tileset.utfgridCompression = GZIP THEN gzipNewReader(blob)
  ELSE [err |-> "ErrHeader", stream |-> <<>>]

\* the last call is a ReadGrid that got the stored blob and the detail rows
GridCallAt(c) ==
  /\ call.op = "ReadGrid"
  /\ call.coord = c
  /\ handle.hasUTFGrid
  /\ c \in DOMAIN container.grids
  /\ container.fault # "grid"

Reconstructs(c) ==
  /\ GridCallAt(c)
  /\ handle.hasUTFGridData
  /\ container.fault # "grid_data"
  /\ GridRows(container, c) # <<>>

StoredIsObject(c) ==
  LET zr == EnvelopeReader(handle, container.grids[c].grid)
      r == ParseValue(zr.stream, 1)
  IN  zr.err = "nil" /\ r.ok /\ r.v.t = "obj"

RowsAreJSON(rows) == \A i \in 1..Len(rows) : Valid(rows[i].key_json)

DistinctKeys(rows) ==
  \A i, j \in 1..Len(rows) : rows[i].key_name = rows[j].key_name => i = j

DecodedRows(rows) ==
  [k \in {rows[i].key_name : i \in 1..Len(rows)} |->
     ParseValue(rows[CHOOSE i \in 1..Len(rows) : rows[i].key_name = k].key_json, 1).v]

\* C1: a ReadGrid on the reconstruction path, over a stored blob that is a
\* JSON object in the handle's envelope and detail rows that hold JSON,
\* returns a blob in that envelope whose JSON is the stored object with
\* data set to {key_name -> the JSON value the row stores}.
C1_Merge ==
  \A c \in Coords :
    (Reconstructs(c) /\ StoredIsObject(c) /\ RowsAreJSON(GridRows(container, c))
       /\ DistinctKeys(GridRows(container, c)))
    => /\ call.err = "nil"
       /\ LET stored == ParseValue(EnvelopeReader(handle, container.grids[c].grid).stream, 1).v
              out == EnvelopeReader(handle, call.data)
              got == ParseValue(out.stream, 1)
          IN  /\ out.err = "nil"
              /\ got.ok
              /\ got.v = JObj(MapPut(stored.m, "data", JObj(DecodedRows(GridRows(container, c)))))

\* C2: on the reconstruction path, a blob that does not decompress with
\* the handle's envelope, or does not decode as a JSON object, or a detail
\* row whose key_json is malformed, makes ReadGrid return an error.
C2_DecodeFailuresReturned ==
  \A c \in Coords :
    (Reconstructs(c) /\ (~StoredIsObject(c) \/ ~RowsAreJSON(GridRows(container, c))))
    => call.err \notin {"nil", "panic"}

\* C3: with grid support and a stored blob, ReadGrid returns exactly the
\* stored bytes and no error when the handle has no grid_data view or the
\* coordinate has no detail rows.
C3_PassThrough ==
  \A c \in Coords :
    (GridCallAt(c)
       /\ (~handle.hasUTFGridData
             \/ (container.fault # "grid_data" /\ GridRows(container, c) = <<>>)))
    => call.err = "nil" /\ call.data = container.grids[c].grid

C3_Witness ==
  /\ GridCallAt(P0)
  /\ handle.hasUTFGridData
  /\ GridRows(container, P0) = <<>>
  /\ container.gridData # NoRows
  /\ container.grids[P0].grid = ZlibData
  /\ call.data = ZlibData

\* C4: ReadTile returns no error and an empty buffer where no row is
\* stored, no error and the row's bytes where one is, and an error when the
\* store fails otherwise.
C4_ReadTile ==
  call.op = "ReadTile" =>
    IF container.fault = "tile" THEN call.err # "nil"
    ELSE IF call.coord \in DOMAIN container.tiles
      THEN call.err = "nil" /\ call.data = container.tiles[call.coord]
    ELSE call.err = "nil" /\ call.data = <<>>

C4_Witness ==
  /\ call.op = "ReadTile"
  /\ call.coord \notin DOMAIN container.tiles
  /\ call.before # <<>>
  /\ call.err = "nil"
  /\ call.data = <<>>

GridOff(S) == ~S.gridsView \/ \A c \in DOMAIN S.grids : S.grids[c].null

TileProbeOk(S) ==
  /\ S.stat
  /\ S.fault \notin {"sample_tile", "probe_grids", "sample_grid"}
  /\ DOMAIN S.tiles # {}
  /\ \A c \in DOMAIN S.tiles : \A d \in detectTileFormat(S.tiles[c]) : d.err = "nil"

\* C5: on a container without a grids view, or with one that holds no
\* non-null grid, NewDB succeeds with hasUTFGrid and hasUTFGridData false,
\* and every ReadGrid on the handle fails with the capability error and
\* leaves the buffer as it was.
C5_NoGridSupport ==
  GridOff(container) =>
    /\ handle.state # "none" => ~handle.hasUTFGrid /\ ~handle.hasUTFGridData
    /\ (call.op = "NewDB" /\ TileProbeOk(container)) => call.err = "nil"
    /\ call.op = "ReadGrid" => call.err = "ErrNoUTFGrid" /\ call.data = call.before

C5_Witness ==
  /\ container.gridsView
  /\ container.gridDataView
  /\ DOMAIN container.grids # {}
  /\ GridOff(container)
  /\ call.op = "ReadGrid"
  /\ call.err = "ErrNoUTFGrid"
  /\ call.before # <<>>

\* C6: the tile format of a handle is never GZIP and never UNKNOWN, it is
\* PBF when the sampled tile is gzip-prefixed, and a gzip-prefixed sample
\* grid leaves the grid compression GZIP.
C6_GzipReinterpreted ==
  handle.state # "none" =>
    /\ handle.tileformat \notin {GZIP, UNKNOWN}
    /\ (\A c \in DOMAIN container.tiles : HasPrefix(container.tiles[c], GzipMagic))
         => handle.tileformat = PBF
    /\ handle.tileformat = PBF
         => \E c \in DOMAIN container.tiles : HasPrefix(container.tiles[c], GzipMagic)
    /\ (handle.hasUTFGrid
          /\ \A c \in DOMAIN container.grids :
               container.grids[c].null \/ HasPrefix(container.grids[c].grid, GzipMagic))
         => handle.utfgridCompression = GZIP

C6_Witness ==
  /\ handle.state = "open"
  /\ handle.tileformat = PBF
  /\ handle.hasUTFGrid
  /\ handle.utfgridCompression = GZIP

WellTyped(m) ==
  /\ \A k \in {"minzoom", "maxzoom"} \cap DOMAIN m : m[k].t = "int"
  /\ \A k \in {"bounds", "center"} \cap DOMAIN m : m[k].t = "floats"

\* C7: a ReadMetadata call either returns an error and no mapping, or a
\* mapping in which minzoom and maxzoom are integers and bounds and center
\* are float sequences.
C7_AllOrNothing ==
  call.op = "ReadMetadata" =>
    \/ call.err \notin {"nil", "panic"} /\ call.metadata.nil
    \/ call.err = "nil" /\ WellTyped(call.metadata.m)

\* C8: once the rows are processed, the mapping is returned as it is when
\* it has both minzoom and maxzoom; otherwise both are set from the zoom
\* levels of the tiles, or, when that query fails, the mapping is returned
\* without error and holds neither.
C8_ZoomInference ==
  LET st == MetaLoop(MetaRows(container), [err |-> "nil", metadata |-> MakeMap])
      built == st.metadata.m
      zs == {c[1] : c \in DOMAIN container.tiles}
  IN  (call.op = "ReadMetadata" /\ container.fault # "metadata" /\ st.err = "nil") =>
        /\ call.err = "nil"
        /\ IF "minzoom" \in DOMAIN built /\ "maxzoom" \in DOMAIN built
             THEN call.metadata = st.metadata
           ELSE IF container.fault # "zoom"
             THEN /\ DOMAIN call.metadata.m = DOMAIN built \cup {"minzoom", "maxzoom"}
                  /\ call.metadata.m["minzoom"] = GoInt(Min(zs))
                  /\ call.metadata.m["maxzoom"] = GoInt(Max(zs))
           ELSE /\ "minzoom" \notin DOMAIN call.metadata.m
                /\ "maxzoom" \notin DOMAIN call.metadata.m

Alone(cl) ==
  IF cl.op = "ReadTile"
    THEN LET r == ReadTile(handle, container, cl.coord, cl.before)
         IN  [err |-> r.err, data |-> r.data, metadata |-> NilMap]
  ELSE IF cl.op = "ReadGrid"
    THEN LET r == ReadGrid(handle, container, cl.coord, cl.before)
         IN  [err |-> r.err, data |-> r.data, metadata |-> NilMap]
  ELSE LET r == ReadMetadata(handle, container)
       IN  [err |-> r.err, data |-> <<>>, metadata |-> r.metadata]

ResultsAlone ==
  \A i \in Callers :
    callers[i].pc = "done" =>
      LET cl == callers[i]
      IN  [err |-> cl.err, data |-> cl.data, metadata |-> cl.metadata] = Alone(cl)

\* C9: whatever the interleaving of the callers' reads, the handle is as
\* NewDB returned it, and every call that returns has the result the same
\* call has when it runs alone on the same store.
C9_ReadsIndependent == handle = call.out /\ ResultsAlone

C9_Witness ==
  /\ callers[1].pc = "done"
  /\ callers[1].op = "ReadGrid"
  /\ callers[1].err = "nil"
  /\ callers[1].coord = P0
  /\ callers[1].data # container.grids[P0].grid
  /\ callers[2].pc = "grid_rows"
  /\ callers[2].coord = P0
  /\ callers[2].rows = <<>>

\* C10: every open store connection is owned by a returned handle, and a
\* caller that is not inside a call holds no open row cursor.
C10_NothingLeaks ==
  /\ leaked = 0
  /\ \A i \in Callers : callers[i].pc \in {"idle", "done"} => callers[i].cursors = 0

====
